---- MODULE Spec2Model ----
(***************************************************************************)
(* Hierarchical timing wheel (src/src/ttimer.c).                           *)
(*                                                                         *)
(* The wheel of the source has 256 buckets per level.  The model keeps the *)
(* arithmetic of the source (quotient and remainder by the bucket count)   *)
(* and scales the bucket count down to Radix, so that a full revolution of *)
(* the top level is within reach of the model checker.                     *)
(***************************************************************************)
EXTENDS Integers, Sequences, FiniteSets, TLC

\* Scaled bucket count (256 in the source).  At least 3, so that the top
\* level has a bucket other than 0 and 1.
Radix == 3

WHEEL_BUCKETS == Radix
WHEEL_MAX_LEVELS == 3

DIV_BY_BUCKETS(x) == x \div WHEEL_BUCKETS
MOD_BY_BUCKETS(x) == x % WHEEL_BUCKETS

MIN(a, b) == IF a < b THEN a ELSE b

Levels == 0 .. (WHEEL_MAX_LEVELS - 1)
Buckets == 0 .. (WHEEL_BUCKETS - 1)

\* The caller's timer references (ttimer_ref_t objects embedded by the caller).
Refs == {"e1", "e2"}

\* ent->func: NULL, or the caller's handler (t_ttimer.c: timeout_handler).
NoFunc == "NULL"
Handler == "timeout_handler"

\* A handler that starts its own reference again, with the timeout its
\* argument (ent->arg) gives, and that does so at most MaxRearm times within
\* one call of ttimer_tick.
RearmHandler == "rearm_handler"
MaxRearm == 2

B2 == WHEEL_BUCKETS * WHEEL_BUCKETS
B3 == WHEEL_BUCKETS * WHEEL_BUCKETS * WHEEL_BUCKETS

VARIABLES
    levels,      \* timer->levels; 0 while no wheel is allocated (timer == NULL)
    lastrun,     \* timer->lastrun
    hand,        \* timer->wheel[l].hand, for the levels l < levels
    bucket,      \* timer->wheel[l].bucket[b]: the list, head first
    ent,         \* the references: scheduled, remaining, func, arg
    calls,       \* the callbacks invoked by the last operation, in order
    ret,         \* the value returned by the last ttimer_stop
    op,          \* the last operation called
    maxtimeout,  \* the maxtimeout the wheel was created with
    obs          \* the caller's bookkeeping of each reference (the harness)

vars == <<levels, lastrun, hand, bucket, ent, calls, ret, op, maxtimeout, obs>>

----------------------------------------------------------------------------
(* The wheel and the references as one value, as the C functions see them. *)

Machine == [levels |-> levels, lastrun |-> lastrun, hand |-> hand,
            bucket |-> bucket, ent |-> ent, calls |-> calls]

EmptyBuckets == [l \in Levels |-> [b \in Buckets |-> <<>>]]

RECURSIVE CountLevels(_, _)
CountLevels(mt, n) ==
    IF mt > 0 THEN CountLevels(DIV_BY_BUCKETS(mt), n + 1) ELSE n

\* ttimer_create giving a wheel of one level, not of WHEEL_MAX_LEVELS, when
\* the loop counted none.
ttimer_create_min_one(mt) ==
    LET n == CountLevels(mt, 0)
    IN  IF n # 0 THEN MIN(n, WHEEL_MAX_LEVELS) ELSE 1

\* ttimer_create: the level count.
ttimer_create(mt) ==
    LET n == CountLevels(mt, 0)
    IN  IF n # 0 THEN MIN(n, WHEEL_MAX_LEVELS) ELSE WHEEL_MAX_LEVELS

\* ttimer_setfunc
ttimer_setfunc(m, e, f, arg) ==
    [m EXCEPT !.ent[e].scheduled = FALSE, !.ent[e].func = f,
              !.ent[e].arg = arg]

\* wheel->hand of timer->wheel[level].  The wheel was allocated with
\* m.levels levels: for a level past them the read is of memory past the
\* allocation, and yields whatever is there (past).
HandOf(m, level, past) == IF level < m.levels THEN m.hand[level] ELSE past

\* The walk of ttimer_start adding, at the final level, the whole of the
\* quotient: "multiplier * timeout" for "multiplier * (timeout - 1)".
RECURSIVE Place_whole_quotient(_, _, _, _, _, _)
Place_whole_quotient(m, past, level, timeout, remaining, multiplier) ==
    LET r == MOD_BY_BUCKETS(HandOf(m, level, past) + timeout)
        q == DIV_BY_BUCKETS(HandOf(m, level, past) + timeout)
    IN  IF q > 0
        THEN IF level + 1 < WHEEL_MAX_LEVELS
             THEN Place_whole_quotient(m, past, level + 1, q,
                                       remaining + r * multiplier,
                                       multiplier * WHEEL_BUCKETS)
             ELSE [level |-> level, r |-> r,
                   remaining |-> remaining + r * multiplier
                                 + (multiplier * WHEEL_BUCKETS) * q]
        ELSE [level |-> level, r |-> r, remaining |-> remaining]

\* The walk of ttimer_start over the levels (the "next:" loop): the level
\* and bucket to insert into and the remaining time.
RECURSIVE Place(_, _, _, _, _, _)
Place(m, past, level, timeout, remaining, multiplier) ==
    LET r == MOD_BY_BUCKETS(HandOf(m, level, past) + timeout)
        q == DIV_BY_BUCKETS(HandOf(m, level, past) + timeout)
    IN  IF q > 0
        THEN IF level + 1 < WHEEL_MAX_LEVELS
             THEN Place(m, past, level + 1, q, remaining + r * multiplier,
                        multiplier * WHEEL_BUCKETS)
             ELSE [level |-> level, r |-> r,
                   remaining |-> remaining + r * multiplier
                                 + (multiplier * WHEEL_BUCKETS) * (q - 1)]
        ELSE [level |-> level, r |-> r, remaining |-> remaining]

\* ttimer_start with the remaining time dropped: the reference is inserted
\* where the walk ends, and fires when that bucket is reached.
ttimer_start_no_remaining(m, past, e, timeout) ==
    LET p == Place(m, past, 0, timeout, 0, 1)
    IN  [m EXCEPT !.ent[e].remaining = 0,
                  !.ent[e].scheduled = TRUE,
                  !.bucket[p.level][p.r] = <<e>> \o @]

\* ttimer_start linking the reference and not setting ent->scheduled.
ttimer_start_no_flag(m, past, e, timeout) ==
    LET p == Place(m, past, 0, timeout, 0, 1)
    IN  [m EXCEPT !.ent[e].remaining = p.remaining,
                  !.bucket[p.level][p.r] = <<e>> \o @]

\* ttimer_start making the reference the whole list of its bucket (the
\* list that was there is not linked behind it).
ttimer_start_drops_list(m, past, e, timeout) ==
    LET p == Place(m, past, 0, timeout, 0, 1)
    IN  [m EXCEPT !.ent[e].remaining = p.remaining,
                  !.ent[e].scheduled = TRUE,
                  !.bucket[p.level][p.r] = <<e>>]

\* ttimer_start (its preconditions are the caller's: see Start).
ttimer_start(m, past, e, timeout) ==
    LET p == Place(m, past, 0, timeout, 0, 1)
    IN  [m EXCEPT !.ent[e].remaining = p.remaining,
                  !.ent[e].scheduled = TRUE,
                  !.bucket[p.level][p.r] = <<e>> \o @]

\* LIST_REMOVE(ent, entry): the reference leaves the list it is linked in.
Without(s, e) == SelectSeq(s, LAMBDA x : x # e)
LIST_REMOVE(b, e) == [l \in Levels |-> [k \in Buckets |-> Without(b[l][k], e)]]

\* ttimer_stop clearing the flag and leaving the reference in its list.
ttimer_stop_no_unlink(m, e) ==
    IF m.ent[e].scheduled
    THEN [m EXCEPT !.ent[e].scheduled = FALSE]
    ELSE m

\* ttimer_stop returning true whether or not the reference was scheduled.
ttimer_stop_ret_always(m, e) == TRUE

\* ttimer_stop: the state after, and the value returned.
ttimer_stop(m, e) ==
    IF m.ent[e].scheduled
    THEN [m EXCEPT !.bucket = LIST_REMOVE(m.bucket, e),
                   !.ent[e].scheduled = FALSE]
    ELSE m
ttimer_stop_ret(m, e) == m.ent[e].scheduled

\* Whether, and where, a reference is linked.
Where(b, e) ==
    {lb \in Levels \X Buckets : \E i \in 1 .. Len(b[lb[1]][lb[2]]) :
                                    b[lb[1]][lb[2]][i] = e}
Linked(b, e) == Where(b, e) # {}

\* How many of the calls a[from+1 ..] are calls of e.
Count(a, from, e) == Cardinality({i \in (from + 1) .. Len(a) : a[i].ref = e})

\* ent->func(ent, ent->arg): the handler runs; what it can see of its
\* reference and of the wheel's clock at that moment is logged with the call.
\* timeout_handler only notes that it ran; the re-arming handler goes on to
\* call ttimer_start(timer, ent, arg).
Callback(m, past, e) ==
    LET ran == [m EXCEPT !.calls = Append(@, [ref |-> e,
                                     scheduled |-> m.ent[e].scheduled,
                                     linked |-> Linked(m.bucket, e),
                                     at |-> m.lastrun])]
    IN  IF m.ent[e].func = RearmHandler /\ Count(m.calls, 0, e) < MaxRearm
        THEN ttimer_start(ran, past, e, m.ent[e].arg)
        ELSE ran

\* The while loop of ttimer_tick, not clearing ent->scheduled.
RECURSIVE Drain_keeps_scheduled(_, _, _, _)
Drain_keeps_scheduled(m, past, level, n) ==
    IF m.bucket[level][n] = <<>> THEN m
    ELSE LET e == Head(m.bucket[level][n])
             remaining == m.ent[e].remaining
             m1 == [m EXCEPT !.bucket = LIST_REMOVE(m.bucket, e)]
         IN  IF remaining # 0
             THEN Drain_keeps_scheduled(ttimer_start(m1, past, e, remaining),
                                        past, level, n)
             ELSE Drain_keeps_scheduled(Callback(m1, past, e), past, level, n)

\* The loop of ttimer_tick as an "if": only the first reference of the
\* bucket is taken out.
Drain_first_only(m, past, level, n) ==
    IF m.bucket[level][n] = <<>> THEN m
    ELSE LET e == Head(m.bucket[level][n])
             remaining == m.ent[e].remaining
             m1 == [m EXCEPT !.bucket = LIST_REMOVE(m.bucket, e),
                             !.ent[e].scheduled = FALSE]
         IN  IF remaining # 0
             THEN ttimer_start(m1, past, e, remaining)
             ELSE Callback(m1, past, e)

\* The while loop of ttimer_tick over bucket n of one level.
RECURSIVE Drain(_, _, _, _)
Drain(m, past, level, n) ==
    IF m.bucket[level][n] = <<>> THEN m
    ELSE LET e == Head(m.bucket[level][n])
             remaining == m.ent[e].remaining
             m1 == [m EXCEPT !.bucket = LIST_REMOVE(m.bucket, e),
                             !.ent[e].scheduled = FALSE]
         IN  IF remaining # 0
             THEN Drain(ttimer_start(m1, past, e, remaining), past, level, n)
             ELSE Drain(Callback(m1, past, e), past, level, n)

\* ttimer_tick going on to the next level whether or not the hand wrapped.
RECURSIVE TickLevel_always_next(_, _, _)
TickLevel_always_next(m, past, level) ==
    LET n == MOD_BY_BUCKETS(m.hand[level] + 1)
        m1 == Drain(m, past, level, n)
        m2 == [m1 EXCEPT !.hand[level] = n]
    IN  IF level + 1 < m.levels
        THEN TickLevel_always_next(m2, past, level + 1)
        ELSE m2

\* ttimer_tick from the label "next:" at one level.
RECURSIVE TickLevel(_, _, _)
TickLevel(m, past, level) ==
    LET n == MOD_BY_BUCKETS(m.hand[level] + 1)
        m1 == Drain(m, past, level, n)
        m2 == [m1 EXCEPT !.hand[level] = n]
    IN  IF n = 0 /\ level + 1 < m.levels
        THEN TickLevel(m2, past, level + 1)
        ELSE m2

ttimer_tick(m, past) == TickLevel(m, past, 0)

----------------------------------------------------------------------------
(* The caller's bookkeeping, as the loops of t_ttimer.c keep it: for each   *)
(* reference the timeout it was last started with (due), the ticks still   *)
(* to go until that timeout has elapsed (left), how often its handler ran  *)
(* since that start (fires, counted up to 2) and whether it was stopped    *)
(* since.                                                                  *)

Armed(o) == o.due > 0 /\ o.fires = 0 /\ ~o.stopped

\* One tick took machine m to m1.  A reference fired in it keeps the ticks
\* that were left at that moment: 0 on time, more when early, -1 when late;
\* one that its handler started again in that tick is noted as started then,
\* with the timeout the handler gave.
Observe(m, m1, o) ==
    [e \in Refs |->
        LET n == Count(m1.calls, Len(m.calls), e)
        IN  IF n > 0 /\ m1.ent[e].scheduled
            THEN [due |-> m1.ent[e].arg, left |-> m1.ent[e].arg,
                  fires |-> 0, stopped |-> FALSE]
            ELSE IF n > 0
                 THEN [o[e] EXCEPT !.fires = MIN(@ + n, 2),
                                   !.left = IF o[e].fires = 0
                                            THEN (IF @ >= 1 THEN @ - 1 ELSE -1)
                                            ELSE @]
                 ELSE IF o[e].due > 0 /\ o[e].fires = 0
                      THEN [o[e] EXCEPT !.left = IF @ >= 1 THEN @ - 1 ELSE 0]
                      ELSE o[e]]

\* ttimer_run_ticks: the while loop, then the store of now.  Each tick is
\* followed by the harness's bookkeeping of that tick (Observe).
\* The loop of ttimer_run_ticks with "<=" for "<".
RECURSIVE RunLoop_inclusive(_, _, _, _)
RunLoop_inclusive(m, past, o, now) ==
    IF m.lastrun <= now
    THEN LET m1 == ttimer_tick(m, past)
         IN  RunLoop_inclusive([m1 EXCEPT !.lastrun = @ + 1], past,
                               Observe(m, m1, o), now)
    ELSE [m |-> m, o |-> o]

RECURSIVE RunLoop(_, _, _, _)
RunLoop(m, past, o, now) ==
    IF m.lastrun < now
    THEN LET m1 == ttimer_tick(m, past)
         IN  RunLoop([m1 EXCEPT !.lastrun = @ + 1], past,
                     Observe(m, m1, o), now)
    ELSE [m |-> m, o |-> o]

ttimer_run_ticks(m, past, o, now) ==
    LET s == RunLoop(m, past, o, now)
    IN  [m |-> [s.m EXCEPT !.lastrun = now], o |-> s.o]

----------------------------------------------------------------------------
(* The operations, as the caller (t_ttimer.c) calls them.                  *)

IdleObs == [due |-> 0, left |-> 0, fires |-> 0, stopped |-> FALSE]

Init ==
    /\ levels = 0
    /\ lastrun = 0
    /\ hand = [l \in Levels |-> 0]
    /\ bucket = EmptyBuckets
    /\ ent = [e \in Refs |-> [scheduled |-> FALSE, remaining |-> 0,
                              func |-> NoFunc, arg |-> 0]]
    /\ calls = <<>>
    /\ ret = FALSE
    /\ op = "none"
    /\ maxtimeout = 0
    /\ obs = [e \in Refs |-> IdleObs]

\* What becomes of the state after a call that left machine m.
Becomes(m) ==
    /\ levels' = m.levels
    /\ lastrun' = m.lastrun
    /\ hand' = m.hand
    /\ bucket' = m.bucket
    /\ ent' = m.ent
    /\ calls' = m.calls

Fresh == [Machine EXCEPT !.calls = <<>>]

\* What a read of a hand past the allocated levels may yield during one
\* call: any value (taken modulo the bucket count here).  A wheel of
\* WHEEL_MAX_LEVELS levels has no such read.
Past == IF levels < WHEEL_MAX_LEVELS THEN Buckets ELSE {0}

\* timer = ttimer_create(mt, now): calloc zeroes the wheel.
Create(mt, now) ==
    /\ levels = 0
    /\ levels' = ttimer_create(mt)
    /\ lastrun' = now
    /\ hand' = [l \in Levels |-> 0]
    /\ bucket' = EmptyBuckets
    /\ maxtimeout' = mt
    /\ calls' = <<>>
    /\ op' = "create"
    /\ ret' = FALSE
    /\ UNCHANGED <<ent, obs>>

\* ttimer_destroy(timer), called as the tests do, with no timer pending.
Destroy ==
    /\ levels > 0
    /\ \A e \in Refs : ~ent[e].scheduled
    /\ levels' = 0
    /\ lastrun' = 0
    /\ hand' = [l \in Levels |-> 0]
    /\ bucket' = EmptyBuckets
    /\ maxtimeout' = 0
    /\ calls' = <<>>
    /\ op' = "destroy"
    /\ obs' = [e \in Refs |-> IdleObs]
    /\ ret' = FALSE
    /\ UNCHANGED ent

\* ttimer_setfunc(ent, handler, arg), once for each reference, before its
\* first start (t_ttimer.c: ttimer_setup).
Setfunc(e) ==
    /\ ent[e].func = NoFunc
    /\ Becomes(ttimer_setfunc(Fresh, e, Handler, 0))
    /\ op' = "setfunc"
    /\ ret' = FALSE
    /\ UNCHANGED <<maxtimeout, obs>>

\* ttimer_start(timer, ent, timeout), with its three ASSERTs holding.
Start(e, timeout) ==
    /\ levels > 0
    /\ timeout > 0
    /\ ~ent[e].scheduled
    /\ ent[e].func # NoFunc
    /\ \E past \in Past : Becomes(ttimer_start(Fresh, past, e, timeout))
    /\ op' = "start"
    /\ obs' = [obs EXCEPT ![e] = [due |-> timeout, left |-> timeout,
                                  fires |-> 0, stopped |-> FALSE]]
    /\ ret' = FALSE
    /\ UNCHANGED maxtimeout

\* ttimer_stop(timer, ent), on a reference that ttimer_setfunc initialised.
Stop(e) ==
    /\ levels > 0
    /\ ent[e].func # NoFunc
    /\ Becomes(ttimer_stop(Fresh, e))
    /\ ret' = ttimer_stop_ret(Fresh, e)
    /\ op' = "stop"
    /\ obs' = IF ret' THEN [obs EXCEPT ![e].stopped = TRUE] ELSE obs
    /\ UNCHANGED maxtimeout

\* ttimer_tick(timer)
Tick ==
    /\ levels > 0
    /\ \E past \in Past :
          /\ Becomes(ttimer_tick(Fresh, past))
          /\ obs' = Observe(Fresh, ttimer_tick(Fresh, past), obs)
    /\ op' = "tick"
    /\ ret' = FALSE
    /\ UNCHANGED maxtimeout

\* ttimer_run_ticks(timer, now)
RunTicks(now) ==
    /\ levels > 0
    /\ \E past \in Past :
          LET s == ttimer_run_ticks(Fresh, past, obs, now)
          IN  Becomes(s.m) /\ obs' = s.o
    /\ op' = "run_ticks"
    /\ ret' = FALSE
    /\ UNCHANGED maxtimeout

----------------------------------------------------------------------------
(* Two references on one wheel, driven one tick at a time.                 *)

\* One maxtimeout for each level count: 1, 2 and 3 levels.
CreateArgs == {WHEEL_BUCKETS - 1, B2 - 1, B3}

\* A timeout that stays in level 0 unless the hand is about to wrap, and one
\* that always carries into level 1 (and, from hands about to wrap, further).
StartTimeouts == {1, WHEEL_BUCKETS + 1}

Next ==
    \/ \E mt \in CreateArgs : Create(mt, 0)
    \/ Destroy
    \/ \E e \in Refs : Setfunc(e)
    \/ \E e \in Refs, t \in StartTimeouts : Start(e, t)
    \/ \E e \in Refs : Stop(e)
    \/ Tick

Spec == Init /\ [][Next]_vars

----------------------------------------------------------------------------
(* One reference, and the wheel driven from the caller's clock as well.    *)

\* The caller's clock (time_t now): values before, at, one after and two
\* after timer->lastrun.
Nows == {0, 1, 2}

\* Timeouts that end in level 0, in level 1 and in level 2.
RunTimeouts == {1, WHEEL_BUCKETS + 1, B2 + 1}

NextRun ==
    \/ \E mt \in CreateArgs : Create(mt, 0)
    \/ Destroy
    \/ Setfunc("e1")
    \/ \E t \in RunTimeouts : Start("e1", t)
    \/ Stop("e1")
    \/ Tick
    \/ \E now \in Nows : RunTicks(now)

SpecRun == Init /\ [][NextRun]_vars

----------------------------------------------------------------------------
(* One reference, every timeout up to the span of the wheel's levels, and  *)
(* the wheel ticked one tick at a time, as the loops of t_ttimer.c do.     *)

RECURSIVE Power(_, _)
Power(b, n) == IF n = 0 THEN 1 ELSE b * Power(b, n - 1)

\* bucket_count ^ levels
Span == Power(WHEEL_BUCKETS, levels)

NextTimed ==
    \/ \E mt \in CreateArgs : Create(mt, 0)
    \/ Destroy
    \/ Setfunc("e1")
    \/ \E t \in 1 .. Span : Start("e1", t)
    \/ Tick

SpecTimed == Init /\ [][NextTimed]_vars

----------------------------------------------------------------------------
(* The same on a wheel of three levels, with the timeouts past its span.   *)

TimeoutsBeyond == (B3 + 1) .. (2 * B3)

NextBeyond ==
    \/ Create(B3, 0)
    \/ Setfunc("e1")
    \/ \E t \in TimeoutsBeyond : Start("e1", t)
    \/ Tick

SpecBeyond == Init /\ [][NextBeyond]_vars

----------------------------------------------------------------------------
(* Creation alone, over every maxtimeout up to past bucket_count^4 and the *)
(* values at and below zero.                                               *)

CreateRange == (0 - 2) .. (B3 * WHEEL_BUCKETS + 1)

NextCreate ==
    \/ \E mt \in CreateRange, now \in Nows : Create(mt, now)
    \/ Destroy

SpecCreate == Init /\ [][NextCreate]_vars

----------------------------------------------------------------------------
(* Firing on time.                                                         *)

\* The reference has not fired, and the timeout it was started with has
\* elapsed: it is overdue.
Overdue(e) == Armed(obs[e]) /\ obs[e].left = 0

\* The handler of e has run, exactly when its timeout elapsed.
FiredOnTime(e) == obs[e].fires >= 1 /\ obs[e].left = 0
FiredEarly(e) == obs[e].fires >= 1 /\ obs[e].left > 0

\* C1: on a wheel of three levels, a timer started with a timeout t in
\* [1, bucket_count^3] and not stopped fires on the t-th tick after the
\* start: it is never still pending once t ticks have passed, and when
\* its handler has run, it ran on tick t.
C1_TimelyFiring ==
    levels = WHEEL_MAX_LEVELS =>
        \A e \in Refs :
            obs[e].due \in 1 .. B3 =>
                /\ ~Overdue(e)
                /\ obs[e].fires >= 1 => FiredOnTime(e)

\* C2: a reference started with a timeout in [1, maxtimeout] of its wheel
\* is linked into a bucket of a level the wheel has (below timer->levels).
C2_EnoughLevels ==
    \A e \in Refs :
        (Armed(obs[e]) /\ obs[e].due <= maxtimeout) =>
            \A lb \in Where(bucket, e) : lb[1] < levels

\* C3: a timer started with a timeout t in [1, bucket_count^levels] does
\* not fire during the first t - 1 ticks after the start, and stays
\* scheduled (and linked) for all of them.
C3_NoEarlyFiring ==
    \A e \in Refs :
        /\ ~FiredEarly(e)
        /\ (Armed(obs[e]) /\ obs[e].left >= 1) =>
               (ent[e].scheduled /\ Linked(bucket, e))

\* A timer that went through two levels of cascading has fired, on its tick.
C3_Witness ==
    /\ levels = WHEEL_MAX_LEVELS
    /\ obs["e1"].due > B2
    /\ FiredOnTime("e1")

\* C4: on a wheel of three levels, a timer started with any timeout
\* t > bucket_count^3 fires on the t-th tick and on no earlier tick.
C4_BeyondSpanExact ==
    levels = WHEEL_MAX_LEVELS =>
        \A e \in Refs :
            obs[e].due > B3 =>
                /\ ~Overdue(e)
                /\ obs[e].fires >= 1 => FiredOnTime(e)

----------------------------------------------------------------------------
(* Cancellation.                                                           *)

\* The references whose handlers the last operation ran, in order.
Called == [i \in 1 .. Len(calls) |-> calls[i].ref]

\* C5: once ttimer_stop has taken a scheduled reference out, no later
\* ttimer_tick or ttimer_run_ticks runs its handler (until it is started
\* again), and it stays unscheduled.
C5_StoppedNeverFires ==
    \A e \in Refs :
        obs[e].stopped =>
            /\ obs[e].fires = 0
            /\ ~ent[e].scheduled
            /\ \A i \in 1 .. Len(Called) : Called[i] # e

\* A reference stopped while it waited in a coarse level with time
\* remaining, and the wheel run on until its timeout had passed.
C5_Witness ==
    /\ obs["e1"].stopped
    /\ obs["e1"].due = B2 + 1
    /\ obs["e1"].left = 0
    /\ ent["e1"].remaining > 0
    /\ op = "run_ticks"

\* C6: ttimer_stop returns true exactly when the reference was scheduled,
\* and then unlinks it and clears scheduled; on an unscheduled reference it
\* returns false and changes no bucket, no hand, not lastrun and no field
\* of any reference.
C6_StopIdempotent ==
    [][\A e \in Refs :
          (op' = "stop" /\ Stop(e)) =>
              /\ ret' = ent[e].scheduled
              /\ ent[e].scheduled =>
                     /\ ~ent'[e].scheduled
                     /\ ~Linked(bucket', e)
              /\ ~ent[e].scheduled =>
                     /\ bucket' = bucket
                     /\ hand' = hand
                     /\ lastrun' = lastrun
                     /\ ent' = ent]_vars

\* ttimer_stop has returned false for a reference while the other one is
\* scheduled and the stopped one holds a remaining time.
C6_Witness ==
    /\ op = "stop"
    /\ ret = FALSE
    /\ \E e \in Refs : ent[e].scheduled
    /\ \E e \in Refs : ~ent[e].scheduled /\ ent[e].remaining > 0

----------------------------------------------------------------------------
(* Firing once.                                                            *)

\* C7: for each start of a reference its handler runs at most once; when it
\* runs, and after the tick, the reference is unscheduled and linked in no
\* bucket; one ttimer_tick never runs the handler of a reference twice.
C7_ExactlyOnce ==
    /\ \A e \in Refs : obs[e].fires <= 1
    /\ \A i \in 1 .. Len(calls) :
          /\ ~calls[i].scheduled
          /\ ~calls[i].linked
          /\ ~ent[calls[i].ref].scheduled
          /\ ~Linked(bucket, calls[i].ref)
          /\ \A j \in 1 .. Len(calls) : j # i => calls[j].ref # calls[i].ref

\* One tick has run the handlers of both references.
C7_Witness == op = "tick" /\ Len(calls) = 2

----------------------------------------------------------------------------
(* Catching up.                                                            *)

\* k calls of ttimer_tick, one after the other, each followed by the
\* harness's bookkeeping.
RECURSIVE KTicks(_, _, _, _)
KTicks(m, past, o, k) ==
    IF k = 0 THEN [m |-> m, o |-> o]
    ELSE LET m1 == ttimer_tick(m, past)
         IN  KTicks(m1, past, Observe(m, m1, o), k - 1)

\* C8: ttimer_run_ticks(timer, lastrun + k), k >= 0, leaves the hands, the
\* buckets and every reference as k calls of ttimer_tick do, runs the same
\* handlers in the same order and on the same ticks, and leaves lastrun at
\* the given now.
C8_CatchUpEquivalence ==
    [][\A now \in Nows :
          (op' = "run_ticks" /\ now >= lastrun /\ RunTicks(now)) =>
              \E past \in Past :
                  LET s == KTicks(Fresh, past, obs, now - lastrun)
                  IN  /\ hand' = s.m.hand
                      /\ bucket' = s.m.bucket
                      /\ ent' = s.m.ent
                      /\ Called' = [i \in 1 .. Len(s.m.calls) |->
                                       s.m.calls[i].ref]
                      /\ obs' = s.o
                      /\ lastrun' = now]_vars

\* ttimer_run_ticks has run at least two ticks, and a handler ran in one
\* that was not the last.
C8_Witness ==
    /\ op = "run_ticks"
    /\ \E i \in 1 .. Len(calls) : lastrun - calls[i].at >= 2

\* C9: ttimer_run_ticks with now <= lastrun runs no tick, changes no hand
\* and no bucket, and leaves lastrun as it is.
C9_NotAfterIsNoOp ==
    [][\A now \in Nows :
          (op' = "run_ticks" /\ now <= lastrun /\ RunTicks(now)) =>
              /\ lastrun' = lastrun
              /\ hand' = hand
              /\ bucket' = bucket
              /\ ent' = ent
              /\ calls' = <<>>]_vars

----------------------------------------------------------------------------
(* Sizing.                                                                 *)

Clamp(n) == IF n < 1 THEN 1 ELSE MIN(n, WHEEL_MAX_LEVELS)

\* ceil(log_bucket_count(mt)), and 0 where mt <= 1.
CeilLog(mt) == CHOOSE n \in 0 .. 5 :
                   /\ Power(WHEEL_BUCKETS, n) >= mt
                   /\ \A k \in 0 .. (n - 1) : Power(WHEEL_BUCKETS, k) < mt

\* The number of digits of mt >= 1 written in base bucket_count:
\* floor(log_bucket_count(mt)) + 1.
Digits(mt) == CHOOSE n \in 1 .. 6 :
                  /\ Power(WHEEL_BUCKETS, n) > mt
                  /\ \A k \in 1 .. (n - 1) : Power(WHEEL_BUCKETS, k) <= mt

\* C10 as stated: ttimer_create gives ceil(log_bucket_count(maxtimeout))
\* levels, clamped to [1, WHEEL_MAX_LEVELS], with all hands 0 and
\* lastrun = now.
C10_CeilLogSizing ==
    [][\A mt \in CreateRange, now \in Nows :
          (op' = "create" /\ Create(mt, now)) =>
              /\ levels' = Clamp(CeilLog(mt))
              /\ \A l \in Levels : hand'[l] = 0
              /\ lastrun' = now]_vars

\* C10 as the code has it: the number of base-bucket_count digits of
\* maxtimeout, at most WHEEL_MAX_LEVELS, for maxtimeout >= 1, and
\* WHEEL_MAX_LEVELS for maxtimeout <= 0; all hands 0, every bucket empty
\* and lastrun = now.
C10_DigitSizing ==
    [][\A mt \in CreateRange, now \in Nows :
          (op' = "create" /\ Create(mt, now)) =>
              /\ levels' = IF mt >= 1 THEN MIN(Digits(mt), WHEEL_MAX_LEVELS)
                                      ELSE WHEEL_MAX_LEVELS
              /\ \A l \in Levels : hand'[l] = 0
              /\ bucket' = EmptyBuckets
              /\ lastrun' = now]_vars

\* A wheel created for maxtimeout = bucket_count^2, at a clock past 0, has
\* three levels.
C10_Witness ==
    /\ op = "create"
    /\ maxtimeout = B2
    /\ levels = WHEEL_MAX_LEVELS
    /\ lastrun > 0

----------------------------------------------------------------------------
(* Setting the handler at any time.                                        *)

\* ttimer_setfunc(ent, handler, arg) called whenever the caller likes, also
\* on a reference that is in a bucket: the function has no ASSERT.
Resetfunc(e) ==
    /\ Becomes(ttimer_setfunc(Fresh, e, Handler, 0))
    /\ op' = "setfunc"
    /\ ret' = FALSE
    /\ UNCHANGED <<maxtimeout, obs>>

\* LIST_INSERT_HEAD of a reference that is in a list already is not a list
\* operation: the caller of this section starts a reference only when it is
\* in no bucket.
NextSetfunc ==
    \/ \E mt \in CreateArgs : Create(mt, 0)
    \/ Destroy
    \/ Resetfunc("e1")
    \/ \E t \in RunTimeouts : ~Linked(bucket, "e1") /\ Start("e1", t)
    \/ Stop("e1")
    \/ Tick

SpecSetfunc == Init /\ [][NextSetfunc]_vars

\* C11: ttimer_setfunc never clears the scheduled flag of a reference that
\* is linked in a bucket: a linked reference stays scheduled whenever
\* ttimer_setfunc is called.
C11_SetfuncKeepsScheduled ==
    \A e \in Refs : Linked(bucket, e) => ent[e].scheduled

----------------------------------------------------------------------------
(* Starting with a precondition broken.                                    *)

\* ASSERT(x) (utils.h): where x holds the call goes on; where it does not,
\* the call is given up at that line.
ASSERT(x) == x

\* The three ASSERTs at the head of ttimer_start.
ttimer_start_asserts(m, e, timeout) ==
    /\ ASSERT(timeout > 0)
    /\ ASSERT(~m.ent[e].scheduled)
    /\ ASSERT(m.ent[e].func # NoFunc)

\* ttimer_start with "ent->remaining = 0" ahead of the ASSERTs.
ttimer_start_resets_first(m, past, e, timeout) ==
    IF ttimer_start_asserts(m, e, timeout)
    THEN ttimer_start(m, past, e, timeout)
    ELSE [m EXCEPT !.ent[e].remaining = 0]

\* ttimer_start from its first line: the ASSERTs, then the walk and the
\* insertion.
ttimer_start_entry(m, past, e, timeout) ==
    IF ttimer_start_asserts(m, e, timeout)
    THEN ttimer_start(m, past, e, timeout)
    ELSE m

\* ttimer_start(timer, ent, timeout) with any reference and any timeout.
StartAny(e, timeout) ==
    /\ levels > 0
    /\ \E past \in Past :
          Becomes(ttimer_start_entry(Fresh, past, e, timeout))
    /\ op' = IF ttimer_start_asserts(Fresh, e, timeout)
             THEN "start" ELSE "start_rejected"
    /\ obs' = IF ttimer_start_asserts(Fresh, e, timeout)
              THEN [obs EXCEPT ![e] = [due |-> timeout, left |-> timeout,
                                       fires |-> 0, stopped |-> FALSE]]
              ELSE obs
    /\ ret' = FALSE
    /\ UNCHANGED maxtimeout

\* Timeouts below zero, zero, and above.
AnyTimeouts == {0 - 1, 0, 1, WHEEL_BUCKETS + 1}

NextAsserts ==
    \/ \E mt \in CreateArgs : Create(mt, 0)
    \/ Destroy
    \/ Setfunc("e1")
    \/ \E t \in AnyTimeouts : StartAny("e1", t)
    \/ Stop("e1")
    \/ Tick

SpecAsserts == Init /\ [][NextAsserts]_vars

\* C12: a ttimer_start with timeout <= 0, with a reference that is
\* scheduled, or with one that has no handler, is rejected, and has changed
\* no bucket, no hand, not lastrun and no field of any reference (the
\* remaining time included), and has run no handler.
C12_StartRejectsUnchanged ==
    [][\A e \in Refs, t \in AnyTimeouts :
          (/\ op' \in {"start", "start_rejected"}
           /\ StartAny(e, t)
           /\ (t <= 0 \/ ent[e].scheduled \/ ent[e].func = NoFunc)) =>
              /\ op' = "start_rejected"
              /\ bucket' = bucket
              /\ hand' = hand
              /\ lastrun' = lastrun
              /\ ent' = ent
              /\ calls' = <<>>]_vars

\* A start was rejected for a reference that waits in a bucket with time
\* remaining.
C12_Witness ==
    /\ op = "start_rejected"
    /\ ent["e1"].scheduled
    /\ ent["e1"].remaining > 0
    /\ Linked(bucket, "e1")

----------------------------------------------------------------------------
(* What each operation leaves alone.                                       *)

\* C13: ttimer_start, ttimer_stop and ttimer_setfunc change no hand and not
\* lastrun and run no handler; a ttimer_start or ttimer_stop of one
\* reference (the one whose scheduled flag the call sets, or clears) leaves
\* every other reference in its bucket, with its remaining time and its
\* scheduled flag; ttimer_tick leaves lastrun alone.
C13_OnlyTickMovesHands ==
    [][/\ op' \in {"start", "stop", "setfunc"} =>
              /\ hand' = hand
              /\ lastrun' = lastrun
              /\ calls' = <<>>
       /\ op' = "tick" => lastrun' = lastrun
       /\ \A e \in Refs :
             (\/ op' = "start" /\ ~ent[e].scheduled /\ ent'[e].scheduled
              \/ op' = "stop" /\ ent[e].scheduled /\ ~ent'[e].scheduled) =>
                 \A f \in Refs \ {e} :
                     /\ Where(bucket', f) = Where(bucket, f)
                     /\ ent'[f] = ent[f]
       /\ (op' = "stop" /\ ~ret') =>
              /\ bucket' = bucket
              /\ ent' = ent]_vars

\* A reference was started into the bucket another one waits in, on a
\* wheel whose hands have moved.
C13_Witness ==
    /\ op = "start"
    /\ hand[0] # 0
    /\ Where(bucket, "e1") # {}
    /\ Where(bucket, "e1") = Where(bucket, "e2")

----------------------------------------------------------------------------
(* Two references, every operation: one reference with a short and a long  *)
(* timeout, the other with the shortest one, and the caller's clock either *)
(* set back to 0 or two ticks on.                                          *)

NextAll ==
    \/ \E mt \in CreateArgs : Create(mt, 0)
    \/ Destroy
    \/ \E e \in Refs : Setfunc(e)
    \/ \E t \in StartTimeouts : Start("e1", t)
    \/ Start("e2", 1)
    \/ \E e \in Refs : Stop(e)
    \/ Tick
    \/ \E now \in {0, 2} : RunTicks(now)

SpecAll == Init /\ [][NextAll]_vars

\* The places (level, bucket, position in the list) a reference is linked at.
Links(b, e) ==
    UNION {{<<lb[1], lb[2], i>> :
               i \in {j \in 1 .. Len(b[lb[1]][lb[2]]) :
                          b[lb[1]][lb[2]][j] = e}} :
           lb \in Levels \X Buckets}

\* C14: whatever create, setfunc, start, stop, tick and run_ticks calls
\* were made within their preconditions, every reference is linked at most
\* once in the whole wheel, and its scheduled flag is true exactly when it
\* is linked once.
C14_ScheduledIffLinkedOnce ==
    \A e \in Refs :
        /\ Cardinality(Links(bucket, e)) <= 1
        /\ ent[e].scheduled <=> (Cardinality(Links(bucket, e)) = 1)

\* ttimer_run_ticks ran the handler of one reference and moved the other
\* one down from a coarser level, where it still waits.
C14_Witness ==
    /\ op = "run_ticks"
    /\ Len(calls) = 1
    /\ \E e \in Refs :
          /\ calls[1].ref # e
          /\ obs[e].due > obs[e].left
          /\ ent[e].scheduled
          /\ Links(bucket, e) # {}

----------------------------------------------------------------------------
(* The hands as a counter.                                                 *)

\* The number the hands of the first n levels spell, level 0 being the
\* lowest digit.
RECURSIVE HandValue(_, _)
HandValue(h, n) ==
    IF n = 0 THEN 0
    ELSE HandValue(h, n - 1) + h[n - 1] * Power(WHEEL_BUCKETS, n - 1)

\* C15: the hands count the ticks in base bucket_count.  Every hand is in
\* [0, bucket_count) always; ttimer_create leaves the count at 0; each
\* ttimer_tick adds one to it (modulo bucket_count^levels), advancing the
\* hand of level 0 by one and the hand of level i+1 by one exactly when the
\* hand of level i wrapped to 0 in that tick; so after k ticks the hand of
\* level i is floor(k / bucket_count^i) mod bucket_count.
C15_HandsCountTicks ==
    [][/\ \A l \in Levels : hand'[l] \in Buckets
       /\ op' = "create" => HandValue(hand', levels') = 0
       /\ op' = "tick" =>
              /\ HandValue(hand', levels)
                     = (HandValue(hand, levels) + 1) % Span
              /\ hand'[0] = (hand[0] + 1) % WHEEL_BUCKETS
              /\ \A i \in 0 .. (levels - 2) :
                     hand'[i + 1] =
                         IF hand[i] = WHEEL_BUCKETS - 1 /\ hand'[i] = 0
                         THEN (hand[i + 1] + 1) % WHEEL_BUCKETS
                         ELSE hand[i + 1]]_vars

\* A tick wrapped the hands of levels 0 and 1 and moved the hand of level
\* 2, with a reference waiting in the wheel.
C15_Witness ==
    /\ op = "tick"
    /\ levels = WHEEL_MAX_LEVELS
    /\ hand[0] = 0
    /\ hand[1] = 0
    /\ hand[2] = 1
    /\ \E e \in Refs : ent[e].scheduled

----------------------------------------------------------------------------
(* Re-cascading while a bucket is drained.                                 *)

\* Whether the drain of bucket n of a level (the while loop of ttimer_tick)
\* re-starts a reference into that same bucket.
RECURSIVE DrainReenters(_, _, _, _)
DrainReenters(m, past, level, n) ==
    IF m.bucket[level][n] = <<>> THEN FALSE
    ELSE LET e == Head(m.bucket[level][n])
             remaining == m.ent[e].remaining
             m1 == [m EXCEPT !.bucket = LIST_REMOVE(m.bucket, e),
                             !.ent[e].scheduled = FALSE]
         IN  IF remaining # 0
             THEN LET m2 == ttimer_start(m1, past, e, remaining)
                  IN  \/ <<level, n>> \in Where(m2.bucket, e)
                      \/ DrainReenters(m2, past, level, n)
             ELSE DrainReenters(Callback(m1, past, e), past, level, n)

\* The same for every level one ttimer_tick visits.
RECURSIVE TickReenters(_, _, _)
TickReenters(m, past, level) ==
    LET n == MOD_BY_BUCKETS(m.hand[level] + 1)
        m2 == [Drain(m, past, level, n) EXCEPT !.hand[level] = n]
    IN  \/ DrainReenters(m, past, level, n)
        \/ /\ n = 0
           /\ level + 1 < m.levels
           /\ TickReenters(m2, past, level + 1)

\* C16: in no state of the wheel does a ttimer_tick re-start a reference
\* into the bucket it is draining, so that the reference would be taken
\* out of that bucket a second time within the call.
C16_NoReentry ==
    levels > 0 => \A past \in Past : ~TickReenters(Fresh, past, 0)

----------------------------------------------------------------------------
(* Termination of a tick.                                                  *)

\* Whether every re-start in the drain of bucket n of a level leaves the
\* reference with less remaining time than it was re-started with.
RECURSIVE DrainDescends(_, _, _, _)
DrainDescends(m, past, level, n) ==
    IF m.bucket[level][n] = <<>> THEN TRUE
    ELSE LET e == Head(m.bucket[level][n])
             remaining == m.ent[e].remaining
             m1 == [m EXCEPT !.bucket = LIST_REMOVE(m.bucket, e),
                             !.ent[e].scheduled = FALSE]
         IN  IF remaining # 0
             THEN LET m2 == ttimer_start(m1, past, e, remaining)
                  IN  /\ m2.ent[e].remaining < remaining
                      /\ DrainDescends(m2, past, level, n)
             ELSE DrainDescends(Callback(m1, past, e), past, level, n)

\* The same for every level one ttimer_tick visits.
RECURSIVE TickDescends(_, _, _)
TickDescends(m, past, level) ==
    LET n == MOD_BY_BUCKETS(m.hand[level] + 1)
    IN  /\ DrainDescends(m, past, level, n)
        /\ (n = 0 /\ level + 1 < m.levels) =>
               TickDescends([Drain(m, past, level, n)
                                EXCEPT !.hand[level] = n], past, level + 1)

\* How many levels one ttimer_tick visits, from a level on.
RECURSIVE TickVisits(_, _, _)
TickVisits(m, past, level) ==
    LET n == MOD_BY_BUCKETS(m.hand[level] + 1)
    IN  IF n = 0 /\ level + 1 < m.levels
        THEN 1 + TickVisits([Drain(m, past, level, n)
                                EXCEPT !.hand[level] = n], past, level + 1)
        ELSE 1

\* C17: with handlers that start no timer, every ttimer_tick comes to an
\* end: each re-start in its drain loops leaves the reference with a
\* remaining time strictly smaller than the one it was re-started with, and
\* the call visits at most timer->levels levels.
C17_TickTerminates ==
    levels > 0 =>
        \A past \in Past :
            /\ TickDescends(Fresh, past, 0)
            /\ TickVisits(Fresh, past, 0) <= levels

\* A tick on a wheel of three levels has brought a reference down from the
\* top level into level 0, where it waits with no time remaining.
C17_Witness ==
    /\ op = "tick"
    /\ levels = WHEEL_MAX_LEVELS
    /\ obs["e1"].due > B2
    /\ ent["e1"].remaining = 0
    /\ \E k \in Buckets : <<0, k>> \in Where(bucket, "e1")

----------------------------------------------------------------------------
(* Several references in one wheel.                                        *)

\* The wheel with reference e the only one in it: the others are in no
\* bucket and not scheduled.
Alone(m, e) ==
    [m EXCEPT !.bucket = [l \in Levels |-> [k \in Buckets |->
                             SelectSeq(m.bucket[l][k], LAMBDA x : x = e)]],
              !.ent = [f \in Refs |->
                          IF f = e THEN m.ent[f]
                          ELSE [m.ent[f] EXCEPT !.scheduled = FALSE]]]

\* What a call did to reference e: its fields, where it is linked, and how
\* often its handler ran.
Of(m, e) == <<m.ent[e], Where(m.bucket, e), Count(m.calls, 0, e)>>

\* C18: whatever other references are in the wheel, a ttimer_tick does to a
\* reference what it would do were the reference alone in the wheel: it
\* runs its handler in the same tick, or moves it to the same bucket with
\* the same remaining time; and a ttimer_start places it where it would be
\* placed alone.  So each reference fires on the tick it would fire on
\* alone, and those due on one tick all fire within that one call.
C18_FiresAsIfAlone ==
    levels > 0 =>
        \A past \in Past, e \in Refs :
            /\ Of(ttimer_tick(Fresh, past), e)
                   = Of(ttimer_tick(Alone(Fresh, e), past), e)
            /\ (~ent[e].scheduled /\ ent[e].func # NoFunc) =>
                   \A t \in StartTimeouts :
                       Of(ttimer_start(Fresh, past, e, t), e)
                           = Of(ttimer_start(Alone(Fresh, e), past, e, t), e)

\* One tick has run the handlers of two references that were started at
\* different times with different timeouts, each on its tick.
C18_Witness ==
    /\ op = "tick"
    /\ Len(calls) = 2
    /\ calls[1].ref # calls[2].ref
    /\ obs["e1"].due # obs["e2"].due
    /\ FiredOnTime("e1")
    /\ FiredOnTime("e2")

----------------------------------------------------------------------------
(* Ticks that keep coming.                                                 *)

\* The caller of SpecTimed, calling ttimer_tick again and again (the tick
\* loops of t_ttimer.c).
SpecLive == Init /\ [][NextTimed]_vars /\ WF_vars(Tick)

\* C19: on a wheel of 1, 2 or 3 levels, a timer that was started and is not
\* stopped has its handler run after finitely many ticks.
C19_EventuallyFires ==
    \A e \in Refs : Armed(obs[e]) ~> (obs[e].fires >= 1)

----------------------------------------------------------------------------
(* A handler that starts its reference again.                              *)

\* ttimer_setfunc(ent, rearm_handler, t), once, before the first start.
SetfuncRearm(e, t) ==
    /\ ent[e].func = NoFunc
    /\ Becomes(ttimer_setfunc(Fresh, e, RearmHandler, t))
    /\ op' = "setfunc"
    /\ ret' = FALSE
    /\ UNCHANGED <<maxtimeout, obs>>

\* The timeouts the handler re-arms with: the next tick, the one after, and
\* one that carries into level 1.
RearmTimeouts == {1, 2, WHEEL_BUCKETS}

NextRearm ==
    \/ \E mt \in CreateArgs : Create(mt, 0)
    \/ \E t \in RearmTimeouts : SetfuncRearm("e1", t)
    \/ \E t \in StartTimeouts : Start("e1", t)
    \/ Stop("e1")
    \/ Tick

SpecRearm == Init /\ [][NextRearm]_vars

\* C20: when the handler that ttimer_tick runs starts its own reference
\* again with a timeout t >= 1, that call of ttimer_tick does not run the
\* handler a second time, and the handler next runs in the t-th call of
\* ttimer_tick after it.
C20_RearmFiresOnceLater ==
    [][op' = "tick" =>
          \A e \in Refs :
              /\ Count(calls', 0, e) <= 1
              /\ (Count(calls', 0, e) = 1 /\ Armed(obs[e])) =>
                     obs[e].left = 1]_vars

====
